---- MODULE Spec2Model ----
(***************************************************************************)
(* Model of the Yandex Music -> Spotify synchronisation scripts            *)
(* (music_transfer.py, playlist_updater.py).                               *)
(*                                                                         *)
(* Strings are sequences of one-character strings.  Similarity ratios and  *)
(* weighted scores are exact rationals [n, d] (d > 0) compared by cross    *)
(* multiplication; the one-ulp rounding of Python floats is not modelled.  *)
(* A Spotify URI is a positive number, 0 stands for Python's None where a  *)
(* URI is expected.                                                        *)
(*                                                                         *)
(* Spec        runs of transfer_playlist and update_playlist_from_yandex   *)
(* SpecBatch   create_spotify_playlist / update_spotify_playlist alone     *)
(* SpecSelect  _find_best_match alone                                      *)
(* SpecSearch  search_spotify_track alone                                  *)
(* SpecUpdater find_missing_tracks, normalize_track_info and               *)
(*             is_track_similar alone                                      *)
(***************************************************************************)
EXTENDS Integers, Sequences, FiniteSets, TLC

---------------------------------------------------------------------------
(* Bounds of the model                                                     *)

\* liked tracks in the Yandex Music library
MaxSrc == 2
\* items of the destination playlist before the run
MaxDest == 1
\* candidates one search query of a run returns
MaxResults == 1
\* candidates handed to _find_best_match when it is called alone
MaxCands == 2
\* references handed to create/update_spotify_playlist when called alone
MaxRefs == 250
\* tracks of each list handed to find_missing_tracks when it is called alone
MaxDiff == 2
\* characters of a title or artist handed to normalize_track_info when it is
\* called alone
MaxLen == 3

---------------------------------------------------------------------------
(* State                                                                   *)

VARIABLES
    entry,                \* the method called
    create_if_not_exists, \* argument of update_playlist_from_yandex
    yandex_lib,           \* the liked tracks held by Yandex Music
    user_playlists,       \* names of the user's Spotify playlists
    dest_items,           \* items of the named playlist before the run
    pc,                   \* position of the run
    branch,               \* transfer | undecided | create_missing | update | direct
    yandex_tracks,        \* result of get_yandex_liked_tracks
    playlist_tracks,      \* result of get_playlist_tracks
    work,                 \* the tracks of the search loop
    i,                    \* index in work of the track being searched
    q,                    \* queries already issued for work[i]
    spotify_uris,         \* resolved references
    not_found_tracks,     \* unresolved tracks
    tracks,               \* argument of create/update_spotify_playlist
    bi,                   \* offset of the batch loop
    created,              \* playlists created by user_playlist_create
    added,                \* URIs appended to the playlist by playlist_add_items
    calls,                \* history: the batches of the playlist_add_items calls
    reports,              \* the not-found reports written
    result,               \* what the entry method returned ("raise": it raised)
    failed,               \* history: the collaborator calls that failed
    searched,             \* history: indexes in work searched at least once
    search_failed,        \* history: indexes in work whose search raised
    uri_src,              \* history: index in work behind each resolved URI
    good_seen,            \* history: indexes in work for which some query
                          \*   returned a candidate scoring above 0.6
    sel_target,           \* _find_best_match called alone: the target
    sel_candidates,       \*   its candidates
    sel_match,            \*   its result
    score_memo,           \* total_score of the inputs, computed once
    diff_source,          \* find_missing_tracks called alone: yandex_tracks
    diff_dest,            \*   spotify_tracks
    diff_missing,         \*   its result
    norm_title,           \* normalize_track_info called alone: title
    norm_artist,          \*   artist
    normalized,           \*   normalized_title, normalized_artist, the key
    renormalized,         \*   the same of a second call on the normalized fields
    sim_track1,           \* is_track_similar called alone: track1
    sim_track2,           \*   track2
    similarity,           \*   the ratio of (track1, track2) and of (track2, track1)
    similar,              \*   the result of (track1, track2) and of (track2, track1)
    similar_memo,         \* is_track_similar of the inputs, computed once
    srch_title,           \* search_spotify_track called alone: title
    srch_artist,          \*   artist
    srch_uri,             \*   its result
    srch_log,             \* history: the queries it issued and their results
    selector_calls        \* history: the _find_best_match calls it made

---------------------------------------------------------------------------
(* Characters and str methods                                              *)

Whitespace == {" ", "\t"}
Punctuation == {"!", ",", "-"}

IsSpace(c) == c \in Whitespace

\* \w of the re module: anything that is neither whitespace nor punctuation
IsWord(c) == c \notin Whitespace /\ c \notin Punctuation

LowerChar(c) ==
    CASE c = "A" -> "a"
      [] c = "B" -> "b"
      [] c = "C" -> "c"
      [] c = "D" -> "d"
      [] c = "X" -> "x"
      [] c = "Y" -> "y"
      [] OTHER -> c

lower(s) == [k \in 1..Len(s) |-> LowerChar(s[k])]

RECURSIVE lstrip(_)
lstrip(s) == IF s # <<>> /\ IsSpace(Head(s)) THEN lstrip(Tail(s)) ELSE s

RECURSIVE rstrip(_)
rstrip(s) ==
    IF s # <<>> /\ IsSpace(s[Len(s)]) THEN rstrip(SubSeq(s, 1, Len(s) - 1)) ELSE s

strip(s) == rstrip(lstrip(s))

\* re.sub(r'[^\w\s]', '', s)
KeepWordOrSpace(c) == IsWord(c) \/ IsSpace(c)

sub_non_word(s) == SelectSeq(s, KeepWordOrSpace)

\* re.sub(r'\s+', ' ', s): every maximal run of whitespace becomes one blank
RECURSIVE sub_spaces(_)
sub_spaces(s) ==
    IF s = <<>> THEN <<>>
    ELSE IF IsSpace(Head(s)) THEN <<" ">> \o sub_spaces(lstrip(s))
    ELSE <<Head(s)>> \o sub_spaces(Tail(s))

RECURSIVE join(_, _)
join(sep, parts) ==
    IF parts = <<>> THEN <<>>
    ELSE IF Len(parts) = 1 THEN parts[1]
    ELSE parts[1] \o sep \o join(sep, Tail(parts))

---------------------------------------------------------------------------
(* Rationals                                                               *)

Rat(n, d) == [n |-> n, d |-> d]
RGt(x, y) == x.n * y.d > y.n * x.d
RGe(x, y) == x.n * y.d >= y.n * x.d
REq(x, y) == x.n * y.d = y.n * x.d

---------------------------------------------------------------------------
(* difflib.SequenceMatcher(None, a, b).ratio(), no junk (the autojunk      *)
(* heuristic needs 200 characters).  Indices are 1-based and inclusive.    *)

RECURSIVE RunLen(_, _, _, _, _, _)
RunLen(a, b, ai, bj, ahi, bhi) ==
    IF ai > ahi \/ bj > bhi THEN 0
    ELSE IF a[ai] # b[bj] THEN 0
    ELSE 1 + RunLen(a, b, ai + 1, bj + 1, ahi, bhi)

\* the longest matching block of a[alo..ahi] and b[blo..bhi]; of the longest,
\* the one that starts earliest in a, and of those, earliest in b
find_longest_match(a, b, alo, ahi, blo, bhi) ==
    LET P == (alo..ahi) \X (blo..bhi)
        k == [p \in P |-> RunLen(a, b, p[1], p[2], ahi, bhi)]
        best == CHOOSE p \in P :
                    \A o \in P :
                        \/ k[p] > k[o]
                        \/ k[p] = k[o] /\ p[1] < o[1]
                        \/ k[p] = k[o] /\ p[1] = o[1] /\ p[2] <= o[2]
    IN  [i |-> best[1], j |-> best[2], size |-> k[best]]

RECURSIVE matches(_, _, _, _, _, _)
matches(a, b, alo, ahi, blo, bhi) ==
    IF alo > ahi \/ blo > bhi THEN 0
    ELSE LET m == find_longest_match(a, b, alo, ahi, blo, bhi)
         IN  IF m.size = 0 THEN 0
             ELSE m.size
                  + matches(a, b, alo, m.i - 1, blo, m.j - 1)
                  + matches(a, b, m.i + m.size, ahi, m.j + m.size, bhi)

ratio(a, b) ==
    IF Len(a) + Len(b) = 0 THEN Rat(1, 1)
    ELSE Rat(2 * matches(a, b, 1, Len(a), 1, Len(b)), Len(a) + Len(b))

---------------------------------------------------------------------------
(* playlist_updater.py: normalizer, similarity test, catalog differ        *)

similarity_threshold == Rat(85, 100)

\* one field of normalize_track_info: lower().strip(), then the two re.sub
normalize_field(s) == sub_spaces(sub_non_word(strip(lower(s))))

normalize_track_info(title, artist) ==
    normalize_field(artist) \o <<" ", "-", " ">> \o normalize_field(title)

\* the local variables of normalize_track_info when it returns
normalize_locals(title, artist) ==
    [title |-> normalize_field(title), artist |-> normalize_field(artist),
     key |-> normalize_track_info(title, artist)]

\* SequenceMatcher(None, normalized1, normalized2).ratio() of is_track_similar
track_similarity(track1, track2) ==
    ratio(normalize_track_info(track1.title, track1.artist),
          normalize_track_info(track2.title, track2.artist))

is_track_similar_SecondRaw(track1, track2) ==
    LET normalized1 == normalize_track_info(track1.title, track1.artist)
        normalized2 == track2.artist \o <<" ", "-", " ">> \o track2.title
    IN  RGe(ratio(normalized1, normalized2), similarity_threshold)

is_track_similar(track1, track2) ==
    LET normalized1 == normalize_track_info(track1.title, track1.artist)
        normalized2 == normalize_track_info(track2.title, track2.artist)
    IN  RGe(ratio(normalized1, normalized2), similarity_threshold)

find_missing_tracks_FirstOnly(source_tracks, spotify_tracks) ==
    LET found_similar(y) ==
            spotify_tracks # <<>> /\ is_track_similar(y, spotify_tracks[1])
        missing(y) == ~found_similar(y)
    IN  SelectSeq(source_tracks, missing)

find_missing_tracks(source_tracks, spotify_tracks) ==
    LET found_similar(y) ==
            \E k \in 1..Len(spotify_tracks) : is_track_similar(y, spotify_tracks[k])
        missing(y) == ~found_similar(y)
    IN  SelectSeq(source_tracks, missing)

\* the track_info dictionary get_playlist_tracks builds from a playlist item
playlist_track_info(item) ==
    [title |-> item.name, artist |-> join(<<",", " ">>, item.artists),
     uri |-> item.uri]

---------------------------------------------------------------------------
(* Inputs: the liked tracks, the Spotify catalogue, the user's playlists   *)

S1 == [title |-> <<"a", "b", "c", "d">>, artist |-> <<"x">>]
S2 == [title |-> <<"a", "b", "c", "d">>, artist |-> <<"y", "z">>]
S3 == [title |-> <<"a", "b", "c">>, artist |-> <<"y">>]

K1 == [name |-> <<"A", "b", "c", "d">>, artists |-> << <<"X">> >>, uri |-> 1]
K2 == [name |-> <<"q", "!">>, artists |-> << <<"r">>, <<"x">> >>, uri |-> 2]
K3 == [name |-> <<"A", "b", "c", "d">>, artists |-> << <<"X">> >>, uri |-> 3]
K4 == [name |-> <<"a", "b", "c", "d">>, artists |-> << <<"y", "z">> >>, uri |-> 4]

SourcePool == {S1, S2, S3}
Catalogue == {K1, K2, K3, K4}
PlaylistPool == {K1, K4}

\* is_track_similar of a liked track and a track of the playlist, computed
\* once per run and kept in similar_memo
SimilarTable ==
    [y \in SourcePool, k \in PlaylistPool |->
        is_track_similar(y, playlist_track_info(k))]

\* tracks handed to find_missing_tracks and is_track_similar when they are
\* called alone (the two keys they read)
U1 == [title |-> <<"a", "a", "b", "a">>, artist |-> <<"a">>]
U2 == [title |-> <<"b", "a", "a", "a">>, artist |-> <<"a">>]
U3 == [title |-> <<"!", " ", "A">>, artist |-> <<"X">>]
U4 == [title |-> <<>>, artist |-> <<>>]

UpdaterPool == {U1, U2, U3, U4}

\* the characters of the titles and artists handed to normalize_track_info
\* when it is called alone
FieldAlphabet == {"A", " ", "!"}

SeqsUpTo(S, n) == UNION {[1..m -> S] : m \in 0..n}

Range(s) == {s[k] : k \in 1..Len(s)}

---------------------------------------------------------------------------
(* music_transfer.py: candidate selector                                   *)

\* Python's None where a Spotify track is expected
None == [name |-> <<>>, artists |-> <<>>, uri |-> 0]

min_score == Rat(6, 10)

RECURSIVE artist_similarity(_, _)
artist_similarity(target_artist, artists) ==
    IF artists = <<>> THEN Rat(0, 1)
    ELSE LET r == ratio(lower(target_artist), lower(Head(artists)))
             rest == artist_similarity(target_artist, Tail(artists))
         IN  IF RGt(rest, r) THEN rest ELSE r

\* title_similarity * 0.7 + artist_similarity * 0.3
total_score(target_title, target_artist, track) ==
    LET t == ratio(lower(target_title), lower(track.name))
        a == artist_similarity(target_artist, track.artists)
    IN  Rat(7 * t.n * a.d + 3 * a.n * t.d, 10 * t.d * a.d)

\* total_score of the model's inputs, computed once per run and kept in
\* score_memo
ScoreTable ==
    [t \in SourcePool, c \in Catalogue |-> total_score(t.title, t.artist, c)]

memo_total_score(target_title, target_artist, track) ==
    LET t == [title |-> target_title, artist |-> target_artist]
    IN  IF <<t, track>> \in DOMAIN score_memo
        THEN score_memo[t, track]
        ELSE total_score(target_title, target_artist, track)

improves_TiesReplace(score, best_score) ==
    RGe(score, best_score) /\ RGt(score, min_score)

improves_ThresholdInclusive(score, best_score) ==
    RGt(score, best_score) /\ RGe(score, min_score)

\* total_score > best_score and total_score > 0.6
improves(score, best_score) ==
    RGt(score, best_score) /\ RGt(score, min_score)

RECURSIVE best_match_loop(_, _, _, _, _)
best_match_loop(target_title, target_artist, candidates, best_score, best_match) ==
    IF candidates = <<>> THEN best_match
    ELSE LET track == Head(candidates)
             score == memo_total_score(target_title, target_artist, track)
         IN  IF improves(score, best_score)
             THEN best_match_loop(target_title, target_artist,
                                  Tail(candidates), score, track)
             ELSE best_match_loop(target_title, target_artist,
                                  Tail(candidates), best_score, best_match)

find_best_match(target_title, target_artist, candidates) ==
    best_match_loop(target_title, target_artist, candidates, Rat(0, 1), None)

\* some candidate of `results` scores above the minimum for `track`
above_min(track, results) ==
    \E k \in 1..Len(results) :
        RGt(memo_total_score(track.title, track.artist, results[k]), min_score)

\* the number of queries search_spotify_track builds: the fourth only when
\* len(title) > 3
num_queries(title) == IF Len(title) > 3 THEN 4 ELSE 3

Quoted(s) == <<"\"">> \o s \o <<"\"">>
TrackField == <<"t", "r", "a", "c", "k", ":">>
ArtistField == <<"a", "r", "t", "i", "s", "t", ":">>

\* search_queries of search_spotify_track, the None of a short title removed
search_queries(title, artist) ==
    LET fielded == TrackField \o Quoted(title) \o <<" ">>
                       \o ArtistField \o Quoted(artist)
        quoted == Quoted(title) \o <<" ">> \o Quoted(artist)
        plain == title \o <<" ">> \o artist
        track_only == TrackField \o Quoted(title)
    IN  IF Len(title) > 3
        THEN <<fielded, quoted, plain, track_only>>
        ELSE <<fielded, quoted, plain>>

\* the tracks searched for and the candidates a query returns when
\* search_spotify_track is called alone
SearchTargets == {S1, S3}
SearchPool == {K1, K2, K4}

---------------------------------------------------------------------------
(* Groups of variables, helpers, initial states                            *)

batch_size == 100

\* the playlist name every run asks for
playlist_name == <<"a">>

inputs == <<entry, create_if_not_exists, yandex_lib, user_playlists, dest_items>>
selector == <<sel_target, sel_candidates, sel_match, score_memo>>
resolve == <<work, i, q, spotify_uris, not_found_tracks, searched,
             search_failed, uri_src,
             good_seen>>
writer == <<tracks, bi, created, added, calls>>
updater == <<diff_source, diff_dest, diff_missing, norm_title, norm_artist,
             normalized, renormalized, sim_track1, sim_track2, similarity,
             similar, similar_memo>>

searcher == <<srch_title, srch_artist, srch_uri, srch_log, selector_calls>>

vars == <<inputs, selector, updater, searcher, resolve, writer, pc, branch,
          yandex_tracks, playlist_tracks, reports, result, failed>>

Min(a, b) == IF a < b THEN a ELSE b

\* find_playlist_by_name over a listing: the first playlist of that name, 0 if none
RECURSIVE first_named(_, _, _)
first_named(playlists, name, k) ==
    IF k > Len(playlists) THEN 0
    ELSE IF lower(playlists[k]) = lower(name) THEN k
    ELSE first_named(playlists, name, k + 1)

find_playlist_by_name(playlists, name) == first_named(playlists, name, 1)

\* tracks[i:i + batch_size], i counted from 0
batch_ShortByOne(all, offset) ==
    SubSeq(all, offset + 1, Min(offset + batch_size - 1, Len(all)))

batch(all, offset) == SubSeq(all, offset + 1, Min(offset + batch_size, Len(all)))

Idle ==
    /\ yandex_tracks = <<>> /\ playlist_tracks = <<>> /\ work = <<>>
    /\ i = 1 /\ q = 0 /\ spotify_uris = <<>> /\ not_found_tracks = <<>>
    /\ bi = 0 /\ created = 0 /\ added = <<>> /\ calls = <<>>
    /\ reports = <<>> /\ result = "" /\ failed = {}
    /\ searched = {} /\ search_failed = {} /\ uri_src = <<>>
    /\ good_seen = {}
    /\ score_memo = ScoreTable
    /\ similar_memo = SimilarTable

NoSelector == sel_target = S1 /\ sel_candidates = <<>> /\ sel_match = None

NoLocals == [title |-> <<>>, artist |-> <<>>, key |-> <<>>]

NoDiffer == diff_source = <<>> /\ diff_dest = <<>> /\ diff_missing = <<>>

NoNormalizer ==
    /\ norm_title = <<>> /\ norm_artist = <<>>
    /\ normalized = NoLocals /\ renormalized = NoLocals

NoSimilarity ==
    /\ sim_track1 = U4 /\ sim_track2 = U4
    /\ similarity = <<Rat(0, 1), Rat(0, 1)>>
    /\ similar = <<FALSE, FALSE>>

NoUpdaterCall == NoDiffer /\ NoNormalizer /\ NoSimilarity

NoSearcher ==
    /\ srch_title = <<>> /\ srch_artist = <<>> /\ srch_uri = 0
    /\ srch_log = <<>> /\ selector_calls = <<>>

\* a run of transfer_playlist or of update_playlist_from_yandex
Init ==
    /\ Idle /\ NoSelector /\ NoUpdaterCall /\ NoSearcher
    /\ pc = "get_yandex_liked_tracks"
    /\ tracks = <<>>
    /\ yandex_lib \in SeqsUpTo(SourcePool, MaxSrc)
    /\ \/ /\ entry = "transfer_playlist"
          /\ branch = "transfer"
          /\ create_if_not_exists = FALSE
          /\ user_playlists = <<>>
          /\ dest_items = <<>>
       \/ /\ entry = "update_playlist_from_yandex"
          /\ branch = "undecided"
          /\ create_if_not_exists \in BOOLEAN
          /\ user_playlists \in {<<>>, << <<"b">> >>, << <<"b">>, <<"A">> >>}
          /\ dest_items \in IF find_playlist_by_name(user_playlists, playlist_name) = 0
                            THEN {<<>>}
                            ELSE SeqsUpTo(PlaylistPool, MaxDest)

\* a direct call of create_spotify_playlist or update_spotify_playlist with
\* the references 1..n
InitBatch ==
    /\ Idle /\ NoSelector /\ NoUpdaterCall /\ NoSearcher
    /\ branch = "direct"
    /\ create_if_not_exists = FALSE
    /\ yandex_lib = <<>> /\ user_playlists = <<>> /\ dest_items = <<>>
    /\ \E n \in 0..MaxRefs : tracks = [k \in 1..n |-> k]
    /\ \/ entry = "create_spotify_playlist" /\ pc = "create_spotify_playlist"
       \/ entry = "update_spotify_playlist" /\ pc = "playlist_add_items"

\* a direct call of _find_best_match
InitSelect ==
    /\ Idle /\ NoUpdaterCall /\ NoSearcher
    /\ entry = "_find_best_match" /\ pc = "_find_best_match"
    /\ branch = "direct"
    /\ create_if_not_exists = FALSE
    /\ yandex_lib = <<>> /\ user_playlists = <<>> /\ dest_items = <<>>
    /\ tracks = <<>>
    /\ sel_target \in SourcePool
    /\ sel_candidates \in SeqsUpTo(Catalogue, MaxCands)
    /\ sel_match = None

\* a direct call of find_missing_tracks, of normalize_track_info (twice, the
\* second time on the fields the first call normalized) or of
\* is_track_similar (in both argument orders)
InitUpdater ==
    /\ Idle /\ NoSelector /\ NoSearcher
    /\ branch = "direct"
    /\ create_if_not_exists = FALSE
    /\ yandex_lib = <<>> /\ user_playlists = <<>> /\ dest_items = <<>>
    /\ tracks = <<>>
    /\ \/ /\ entry = "find_missing_tracks" /\ pc = "find_missing_tracks"
          /\ diff_source \in SeqsUpTo(UpdaterPool, MaxDiff)
          /\ diff_dest \in SeqsUpTo(UpdaterPool, MaxDiff)
          /\ diff_missing = <<>>
          /\ NoNormalizer /\ NoSimilarity
       \/ /\ entry = "normalize_track_info" /\ pc = "normalize_track_info"
          /\ norm_title \in SeqsUpTo(FieldAlphabet, MaxLen)
          /\ norm_artist \in SeqsUpTo(FieldAlphabet, MaxLen)
          /\ normalized = NoLocals /\ renormalized = NoLocals
          /\ NoDiffer /\ NoSimilarity
       \/ /\ entry = "is_track_similar" /\ pc = "is_track_similar"
          /\ sim_track1 \in UpdaterPool
          /\ sim_track2 \in UpdaterPool
          /\ similarity = <<Rat(0, 1), Rat(0, 1)>>
          /\ similar = <<FALSE, FALSE>>
          /\ NoDiffer /\ NoNormalizer

\* a direct call of search_spotify_track
InitSearch ==
    /\ Idle /\ NoSelector /\ NoUpdaterCall
    /\ entry = "search_spotify_track" /\ pc = "search_spotify_track"
    /\ branch = "direct"
    /\ create_if_not_exists = FALSE
    /\ yandex_lib = <<>> /\ user_playlists = <<>> /\ dest_items = <<>>
    /\ tracks = <<>>
    /\ \E t \in SearchTargets : srch_title = t.title /\ srch_artist = t.artist
    /\ srch_uri = 0 /\ srch_log = <<>> /\ selector_calls = <<>>

---------------------------------------------------------------------------
(* Steps                                                                   *)

OnCreatePath ==
    branch \in {"transfer", "create_missing"} \/ entry = "create_spotify_playlist"

\* get_yandex_liked_tracks and the `if not yandex_tracks` of its two callers;
\* a failure of users_likes_tracks (or of a fetch_track) is caught and an
\* empty list returned.  Every track of yandex_lib has a title, so the
\* `if track and track.title` filter keeps them all.
GetYandexLikedTracks ==
    /\ pc = "get_yandex_liked_tracks"
    /\ \E ok \in BOOLEAN :
         LET liked == IF ok THEN yandex_lib ELSE <<>>
         IN  /\ yandex_tracks' = liked
             /\ failed' = IF ok THEN failed ELSE failed \cup {"users_likes_tracks"}
             /\ IF liked = <<>>
                THEN /\ pc' = "done"
                     /\ result' = IF entry = "transfer_playlist" THEN "None" ELSE "False"
                     /\ work' = work
                ELSE IF entry = "transfer_playlist"
                THEN /\ pc' = "search"
                     /\ work' = liked
                     /\ result' = result
                ELSE /\ pc' = "find_playlist_by_name"
                     /\ UNCHANGED <<work, result>>
    /\ UNCHANGED <<inputs, selector, updater, searcher, writer, branch, playlist_tracks, reports,
                   i, q, spotify_uris, not_found_tracks, searched,
                   search_failed, uri_src,
                   good_seen>>

FindPlaylistByName_IgnoresFlag ==
    /\ pc = "find_playlist_by_name"
    /\ \E ok \in BOOLEAN :
         LET playlists == IF ok THEN user_playlists ELSE <<>>
             playlist == find_playlist_by_name(playlists, playlist_name)
         IN  /\ failed' = IF ok THEN failed ELSE failed \cup {"current_user_playlists"}
             /\ IF playlist = 0
                THEN IF TRUE
                     THEN /\ branch' = "create_missing"
                          /\ pc' = "search"
                          /\ work' = yandex_tracks
                          /\ result' = result
                     ELSE /\ pc' = "done"
                          /\ result' = "False"
                          /\ UNCHANGED <<branch, work>>
                ELSE /\ branch' = "update"
                     /\ pc' = "get_playlist_tracks"
                     /\ UNCHANGED <<work, result>>
    /\ UNCHANGED <<inputs, selector, updater, searcher, writer, yandex_tracks, playlist_tracks,
                   reports, i, q, spotify_uris, not_found_tracks, searched,
                   search_failed, uri_src,
                   good_seen>>

\* find_playlist_by_name and the `if not playlist` of
\* update_playlist_from_yandex; a failure of current_user_playlists is caught
\* by get_user_playlists and an empty list returned
FindPlaylistByName ==
    /\ pc = "find_playlist_by_name"
    /\ \E ok \in BOOLEAN :
         LET playlists == IF ok THEN user_playlists ELSE <<>>
             playlist == find_playlist_by_name(playlists, playlist_name)
         IN  /\ failed' = IF ok THEN failed ELSE failed \cup {"current_user_playlists"}
             /\ IF playlist = 0
                THEN IF create_if_not_exists
                     THEN /\ branch' = "create_missing"
                          /\ pc' = "search"
                          /\ work' = yandex_tracks
                          /\ result' = result
                     ELSE /\ pc' = "done"
                          /\ result' = "False"
                          /\ UNCHANGED <<branch, work>>
                ELSE /\ branch' = "update"
                     /\ pc' = "get_playlist_tracks"
                     /\ UNCHANGED <<work, result>>
    /\ UNCHANGED <<inputs, selector, updater, searcher, writer, yandex_tracks, playlist_tracks,
                   reports, i, q, spotify_uris, not_found_tracks, searched,
                   search_failed, uri_src,
                   good_seen>>

\* get_playlist_tracks; a failure of playlist_items is caught and an empty
\* list returned
GetPlaylistTracks ==
    /\ pc = "get_playlist_tracks"
    /\ \E ok \in BOOLEAN :
         /\ playlist_tracks' =
                IF ok THEN [k \in 1..Len(dest_items) |-> playlist_track_info(dest_items[k])]
                ELSE <<>>
         /\ failed' = IF ok THEN failed ELSE failed \cup {"playlist_items"}
    /\ pc' = "find_missing_tracks"
    /\ UNCHANGED <<inputs, selector, updater, searcher, resolve, writer, branch, yandex_tracks,
                   reports, result>>

FindMissingTracks_SearchesAll ==
    /\ pc = "find_missing_tracks"
    /\ LET missing_tracks == find_missing_tracks(yandex_tracks, playlist_tracks)
       IN  IF missing_tracks = <<>>
           THEN pc' = "done" /\ result' = "True" /\ work' = work
           ELSE pc' = "search" /\ work' = yandex_tracks /\ result' = result
    /\ UNCHANGED <<inputs, selector, updater, searcher, writer, branch,
                   yandex_tracks, playlist_tracks, reports, failed, i, q,
                   spotify_uris, not_found_tracks, searched, search_failed,
                   uri_src,
                   good_seen>>

\* find_missing_tracks and the `if not missing_tracks` after it
FindMissingTracks ==
    /\ pc = "find_missing_tracks"
    /\ LET missing_tracks == find_missing_tracks(yandex_tracks, playlist_tracks)
       IN  IF missing_tracks = <<>>
           THEN pc' = "done" /\ result' = "True" /\ work' = work
           ELSE pc' = "search" /\ work' = missing_tracks /\ result' = result
    /\ UNCHANGED <<inputs, selector, updater, searcher, writer, branch, yandex_tracks,
                   playlist_tracks, reports, failed, i, q, spotify_uris,
                   not_found_tracks, searched, search_failed, uri_src,
                   good_seen>>

SearchQuery_DropsUnresolved ==
    /\ pc = "search"
    /\ i <= Len(work)
    /\ \E results \in SeqsUpTo(Catalogue, MaxResults) :
         LET track == work[i]
             best_match == IF results # <<>>
                           THEN find_best_match(track.title, track.artist, results)
                           ELSE None
         IN  /\ good_seen' = IF above_min(track, results)
                             THEN good_seen \cup {i} ELSE good_seen
             /\ IF best_match # None
                THEN /\ spotify_uris' = Append(spotify_uris, best_match.uri)
                     /\ uri_src' = Append(uri_src, i)
                     /\ i' = i + 1
                     /\ q' = 0
                     /\ UNCHANGED not_found_tracks
                ELSE IF q + 1 < num_queries(track.title)
                THEN /\ q' = q + 1
                     /\ UNCHANGED <<spotify_uris, uri_src, i, not_found_tracks>>
                ELSE /\ not_found_tracks' = not_found_tracks
                     /\ i' = i + 1
                     /\ q' = 0
                     /\ UNCHANGED <<spotify_uris, uri_src>>
    /\ searched' = searched \cup {i}
    /\ UNCHANGED <<inputs, selector, updater, searcher, writer, pc, branch,
                   yandex_tracks, playlist_tracks, reports, result, failed,
                   work, search_failed>>

\* one query of search_spotify_track for work[i] that returns `results`, and
\* what the caller's loop does when the method returns
SearchQuery ==
    /\ pc = "search"
    /\ i <= Len(work)
    /\ \E results \in SeqsUpTo(Catalogue, MaxResults) :
         LET track == work[i]
             best_match == IF results # <<>>
                           THEN find_best_match(track.title, track.artist, results)
                           ELSE None
         IN  /\ good_seen' = IF above_min(track, results)
                             THEN good_seen \cup {i} ELSE good_seen
             /\ IF best_match # None
                THEN /\ spotify_uris' = Append(spotify_uris, best_match.uri)
                     /\ uri_src' = Append(uri_src, i)
                     /\ i' = i + 1
                     /\ q' = 0
                     /\ UNCHANGED not_found_tracks
                ELSE IF q + 1 < num_queries(track.title)
                THEN /\ q' = q + 1
                     /\ UNCHANGED <<spotify_uris, uri_src, i, not_found_tracks>>
                ELSE /\ not_found_tracks' = Append(not_found_tracks, track)
                     /\ i' = i + 1
                     /\ q' = 0
                     /\ UNCHANGED <<spotify_uris, uri_src>>
    /\ searched' = searched \cup {i}
    /\ UNCHANGED <<inputs, selector, updater, searcher, writer, pc, branch,
                   yandex_tracks, playlist_tracks, reports, result, failed,
                   work, search_failed>>

SearchRaises_Abort ==
    /\ pc = "search"
    /\ i <= Len(work)
    /\ searched' = searched \cup {i}
    /\ search_failed' = search_failed \cup {i}
    /\ pc' = "done"
    /\ result' = "raise"
    /\ UNCHANGED <<inputs, selector, updater, searcher, writer, branch, yandex_tracks,
                   playlist_tracks, reports, failed, work, i, q,
                   spotify_uris, not_found_tracks, uri_src,
                   good_seen>>

\* one query of search_spotify_track for work[i] that raises: the method
\* catches it and returns None
SearchRaises ==
    /\ pc = "search"
    /\ i <= Len(work)
    /\ searched' = searched \cup {i}
    /\ search_failed' = search_failed \cup {i}
    /\ not_found_tracks' = Append(not_found_tracks, work[i])
    /\ i' = i + 1
    /\ q' = 0
    /\ UNCHANGED <<inputs, selector, updater, searcher, writer, pc, branch, yandex_tracks,
                   playlist_tracks, reports, result, failed, work,
                   spotify_uris, uri_src,
                   good_seen>>

AfterSearchLoop_CreatesAlways ==
    /\ pc = "search"
    /\ i > Len(work)
    /\ IF spotify_uris # <<>> \/ branch # "update"
       THEN /\ pc' = IF branch = "update" THEN "playlist_add_items"
                     ELSE "create_spotify_playlist"
            /\ tracks' = spotify_uris
            /\ result' = result
       ELSE /\ tracks' = tracks
            /\ IF branch = "transfer"
               THEN IF not_found_tracks # <<>>
                    THEN pc' = "save_not_found_tracks" /\ result' = result
                    ELSE pc' = "done" /\ result' = "None"
               ELSE pc' = "done" /\ result' = "False"
    /\ UNCHANGED <<inputs, selector, updater, searcher, resolve, bi, created, added, calls,
                   branch, yandex_tracks, playlist_tracks, reports, failed>>

\* the code after the search loop of transfer_playlist and of the two
\* branches of update_playlist_from_yandex
AfterSearchLoop ==
    /\ pc = "search"
    /\ i > Len(work)
    /\ IF spotify_uris # <<>>
       THEN /\ pc' = IF branch = "update" THEN "playlist_add_items"
                     ELSE "create_spotify_playlist"
            /\ tracks' = spotify_uris
            /\ result' = result
       ELSE /\ tracks' = tracks
            /\ IF branch = "transfer"
               THEN IF not_found_tracks # <<>>
                    THEN pc' = "save_not_found_tracks" /\ result' = result
                    ELSE pc' = "done" /\ result' = "None"
               ELSE pc' = "done" /\ result' = "False"
    /\ UNCHANGED <<inputs, selector, updater, searcher, resolve, bi, created, added, calls,
                   branch, yandex_tracks, playlist_tracks, reports, failed>>

\* current_user and user_playlist_create of create_spotify_playlist; an
\* exception is re-raised
CreatePlaylist ==
    /\ pc = "create_spotify_playlist"
    /\ \E ok \in BOOLEAN :
         IF ok
         THEN /\ created' = created + 1
              /\ pc' = "playlist_add_items"
              /\ UNCHANGED <<result, failed>>
         ELSE /\ failed' = failed \cup {"user_playlist_create"}
              /\ pc' = "done"
              /\ result' = "raise"
              /\ created' = created
    /\ UNCHANGED <<inputs, selector, updater, searcher, resolve, tracks, bi, added, calls, branch,
                   yandex_tracks, playlist_tracks, reports>>

\* one turn of the batch loop of create_spotify_playlist or
\* update_spotify_playlist whose playlist_add_items call succeeds
PlaylistAddItems ==
    /\ pc = "playlist_add_items"
    /\ bi < Len(tracks)
    /\ calls' = Append(calls, batch(tracks, bi))
    /\ added' = added \o batch(tracks, bi)
    /\ bi' = bi + batch_size
    /\ UNCHANGED <<inputs, selector, updater, searcher, resolve, tracks, created, pc, branch,
                   yandex_tracks, playlist_tracks, reports, result, failed>>

PlaylistAddItemsRaises_Skip ==
    /\ pc = "playlist_add_items"
    /\ bi < Len(tracks)
    /\ failed' = failed \cup {"playlist_add_items"}
    /\ bi' = bi + batch_size
    /\ UNCHANGED <<inputs, selector, updater, searcher, resolve, tracks, created, added, calls, pc,
                   branch, yandex_tracks, playlist_tracks, reports, result>>

\* one turn of the batch loop whose playlist_add_items call raises:
\* create_spotify_playlist re-raises, update_spotify_playlist returns False
\* and update_playlist_from_yandex then returns False
PlaylistAddItemsRaises ==
    /\ pc = "playlist_add_items"
    /\ bi < Len(tracks)
    /\ failed' = failed \cup {"playlist_add_items"}
    /\ pc' = "done"
    /\ result' = IF OnCreatePath THEN "raise" ELSE "False"
    /\ UNCHANGED <<inputs, selector, updater, searcher, resolve, writer, branch, yandex_tracks,
                   playlist_tracks, reports>>

\* the batch loop is over (or new_tracks was empty): the method returns and
\* its caller goes on
AfterBatchLoop ==
    /\ pc = "playlist_add_items"
    /\ bi >= Len(tracks)
    /\ IF branch = "direct"
       THEN /\ pc' = "done"
            /\ result' = IF entry = "create_spotify_playlist"
                         THEN "playlist_id" ELSE "True"
       ELSE IF not_found_tracks # <<>>
       THEN pc' = "save_not_found_tracks" /\ result' = result
       ELSE pc' = "done" /\ result' = IF branch = "transfer" THEN "None" ELSE "True"
    /\ UNCHANGED <<inputs, selector, updater, searcher, resolve, writer, branch, yandex_tracks,
                   playlist_tracks, reports, failed>>

\* _save_not_found_tracks; a failure of the write is caught and printed
SaveNotFoundTracks ==
    /\ pc = "save_not_found_tracks"
    /\ \E ok \in BOOLEAN :
         /\ reports' = IF ok THEN Append(reports, not_found_tracks) ELSE reports
         /\ failed' = IF ok THEN failed ELSE failed \cup {"report"}
    /\ pc' = "done"
    /\ result' = IF branch = "transfer" THEN "None" ELSE "True"
    /\ UNCHANGED <<inputs, selector, updater, searcher, resolve, writer, branch, yandex_tracks,
                   playlist_tracks>>

\* _find_best_match called on its own
FindBestMatch ==
    /\ pc = "_find_best_match"
    /\ sel_match' = find_best_match(sel_target.title, sel_target.artist, sel_candidates)
    /\ pc' = "done"
    /\ UNCHANGED <<inputs, updater, searcher, resolve, writer, branch, yandex_tracks,
                   playlist_tracks, reports, result, failed, sel_target,
                   sel_candidates, score_memo>>

\* find_missing_tracks called on its own
CallFindMissingTracks ==
    /\ entry = "find_missing_tracks" /\ pc = "find_missing_tracks"
    /\ diff_missing' = find_missing_tracks(diff_source, diff_dest)
    /\ pc' = "done"
    /\ UNCHANGED <<inputs, selector, searcher, resolve, writer, branch, yandex_tracks,
                   playlist_tracks, reports, result, failed, diff_source,
                   diff_dest, norm_title, norm_artist, normalized,
                   renormalized, sim_track1, sim_track2, similarity, similar,
                   similar_memo>>

\* normalize_track_info called on its own
CallNormalizeTrackInfo ==
    /\ entry = "normalize_track_info" /\ pc = "normalize_track_info"
    /\ normalized' = normalize_locals(norm_title, norm_artist)
    /\ pc' = "normalize_again"
    /\ UNCHANGED <<inputs, selector, searcher, resolve, writer, branch, yandex_tracks,
                   playlist_tracks, reports, result, failed, diff_source,
                   diff_dest, diff_missing, norm_title, norm_artist,
                   renormalized, sim_track1, sim_track2, similarity, similar,
                   similar_memo>>

\* normalize_track_info called on the fields its first call normalized
CallNormalizeAgain ==
    /\ entry = "normalize_track_info" /\ pc = "normalize_again"
    /\ renormalized' = normalize_locals(normalized.title, normalized.artist)
    /\ pc' = "done"
    /\ UNCHANGED <<inputs, selector, searcher, resolve, writer, branch, yandex_tracks,
                   playlist_tracks, reports, result, failed, diff_source,
                   diff_dest, diff_missing, norm_title, norm_artist,
                   normalized, sim_track1, sim_track2, similarity, similar,
                   similar_memo>>

\* is_track_similar(track1, track2) and is_track_similar(track2, track1)
CallIsTrackSimilar ==
    /\ entry = "is_track_similar" /\ pc = "is_track_similar"
    /\ similarity' = <<track_similarity(sim_track1, sim_track2),
                       track_similarity(sim_track2, sim_track1)>>
    /\ similar' = <<is_track_similar(sim_track1, sim_track2),
                    is_track_similar(sim_track2, sim_track1)>>
    /\ pc' = "done"
    /\ UNCHANGED <<inputs, selector, searcher, resolve, writer, branch, yandex_tracks,
                   playlist_tracks, reports, result, failed, diff_source,
                   diff_dest, diff_missing, norm_title, norm_artist,
                   normalized, renormalized, sim_track1, sim_track2,
                   similar_memo>>

SearchSpotifyTrack_KeepsSearching ==
    /\ entry = "search_spotify_track" /\ pc = "search_spotify_track"
    /\ q < Len(search_queries(srch_title, srch_artist))
    /\ \E results \in SeqsUpTo(SearchPool, MaxResults) :
         LET query == search_queries(srch_title, srch_artist)[q + 1]
             best_match == IF results # <<>>
                           THEN find_best_match(srch_title, srch_artist, results)
                           ELSE None
             last == q + 1 = Len(search_queries(srch_title, srch_artist))
         IN  /\ srch_log' = Append(srch_log, [query |-> query, results |-> results])
             /\ selector_calls' =
                    IF results # <<>>
                    THEN Append(selector_calls,
                                [target_title |-> srch_title,
                                 target_artist |-> srch_artist,
                                 candidates |-> results])
                    ELSE selector_calls
             /\ q' = q + 1
             /\ srch_uri' = IF best_match # None THEN best_match.uri ELSE srch_uri
             /\ pc' = IF last THEN "done" ELSE pc
    /\ UNCHANGED <<inputs, selector, updater, writer, branch, yandex_tracks,
                   playlist_tracks, reports, result, failed, work, i,
                   spotify_uris, not_found_tracks, searched, search_failed,
                   uri_src, good_seen, srch_title, srch_artist>>

\* one turn of the query loop of search_spotify_track called on its own; the
\* last turn includes the `return None` after the loop
SearchSpotifyTrack ==
    /\ entry = "search_spotify_track" /\ pc = "search_spotify_track"
    /\ q < Len(search_queries(srch_title, srch_artist))
    /\ \E results \in SeqsUpTo(SearchPool, MaxResults) :
         LET query == search_queries(srch_title, srch_artist)[q + 1]
             best_match == IF results # <<>>
                           THEN find_best_match(srch_title, srch_artist, results)
                           ELSE None
             last == q + 1 = Len(search_queries(srch_title, srch_artist))
         IN  /\ srch_log' = Append(srch_log, [query |-> query, results |-> results])
             /\ selector_calls' =
                    IF results # <<>>
                    THEN Append(selector_calls,
                                [target_title |-> srch_title,
                                 target_artist |-> srch_artist,
                                 candidates |-> results])
                    ELSE selector_calls
             /\ q' = q + 1
             /\ srch_uri' = IF best_match # None THEN best_match.uri ELSE 0
             /\ pc' = IF best_match # None \/ last THEN "done" ELSE pc
    /\ UNCHANGED <<inputs, selector, updater, writer, branch, yandex_tracks,
                   playlist_tracks, reports, result, failed, work, i,
                   spotify_uris, not_found_tracks, searched, search_failed,
                   uri_src, good_seen, srch_title, srch_artist>>

\* a query of search_spotify_track called on its own raises: the method
\* catches it and returns None
SearchSpotifyTrackRaises ==
    /\ entry = "search_spotify_track" /\ pc = "search_spotify_track"
    /\ q < Len(search_queries(srch_title, srch_artist))
    /\ srch_log' = Append(srch_log,
                          [query |-> search_queries(srch_title, srch_artist)[q + 1],
                           results |-> <<>>])
    /\ q' = q + 1
    /\ failed' = failed \cup {"search"}
    /\ srch_uri' = 0
    /\ pc' = "done"
    /\ UNCHANGED <<inputs, selector, updater, writer, branch, yandex_tracks,
                   playlist_tracks, reports, result, work, i, spotify_uris,
                   not_found_tracks, searched, search_failed, uri_src,
                   good_seen,
                   srch_title, srch_artist, selector_calls>>

Next ==
    \/ GetYandexLikedTracks
    \/ FindPlaylistByName
    \/ GetPlaylistTracks
    \/ FindMissingTracks
    \/ SearchQuery
    \/ SearchRaises
    \/ AfterSearchLoop
    \/ CreatePlaylist
    \/ PlaylistAddItems
    \/ PlaylistAddItemsRaises
    \/ AfterBatchLoop
    \/ SaveNotFoundTracks

Spec == Init /\ [][Next]_vars

NextBatch ==
    \/ CreatePlaylist
    \/ PlaylistAddItems
    \/ PlaylistAddItemsRaises
    \/ AfterBatchLoop

SpecBatch == InitBatch /\ [][NextBatch]_vars

NextSelect == FindBestMatch

SpecSelect == InitSelect /\ [][NextSelect]_vars

NextUpdater ==
    \/ CallFindMissingTracks
    \/ CallNormalizeTrackInfo
    \/ CallNormalizeAgain
    \/ CallIsTrackSimilar

SpecUpdater == InitUpdater /\ [][NextUpdater]_vars

NextSearch ==
    \/ SearchSpotifyTrack
    \/ SearchSpotifyTrackRaises

SpecSearch == InitSearch /\ [][NextSearch]_vars

---------------------------------------------------------------------------
(* Properties                                                              *)

RECURSIVE Flatten(_)
Flatten(ss) == IF ss = <<>> THEN <<>> ELSE Head(ss) \o Flatten(Tail(ss))

NoDuplicates(s) == \A k, l \in 1..Len(s) : k # l => s[k] # s[l]

WriterFailed == "playlist_add_items" \in failed
CreateFailed == "user_playlist_create" \in failed

\* C1: batched apply makes its playlist_add_items calls in list order, each
\* with at most 100 references: at any moment the batches sent so far,
\* concatenated, are a prefix of the input list, and when every call has
\* succeeded and the method has returned there were exactly ceil(N/100) calls
\* whose concatenation is the input list.
C1_BatchedApply ==
    /\ \A k \in 1..Len(calls) : Len(calls[k]) <= 100
    /\ Len(Flatten(calls)) <= Len(tracks)
    /\ Flatten(calls) = SubSeq(tracks, 1, Len(Flatten(calls)))
    /\ (pc = "done" /\ ~WriterFailed /\ ~CreateFailed) =>
          /\ Len(calls) = (Len(tracks) + 99) \div 100
          /\ Flatten(calls) = tracks

\* 250 references went out as batches of 100, 100 and 50
C1_Witness ==
    /\ pc = "done"
    /\ Len(tracks) = 250
    /\ Len(calls) = 3
    /\ Len(calls[1]) = 100 /\ Len(calls[2]) = 100 /\ Len(calls[3]) = 50
    /\ calls[3][50] = tracks[250]

\* C2: once the playlist_add_items call for batch k has failed the run is
\* over: no further writer call is made and nothing is taken back, the
\* batches 1..k-1 (full batches, a prefix of the input) are what the playlist
\* received, and the caller gets an exception (create path) or False (update
\* path).
C2_WriteFailureAborts ==
    /\ [](WriterFailed =>
            /\ pc = "done"
            /\ result = IF OnCreatePath THEN "raise" ELSE "False"
            /\ added = Flatten(calls)
            /\ Len(added) = 100 * Len(calls)
            /\ Len(added) < Len(tracks)
            /\ added = SubSeq(tracks, 1, Len(added)))
    /\ [][WriterFailed => (calls' = calls /\ added' = added /\ created' = created)]_vars

\* the third batch of 250 failed after two batches were applied
C2_Witness ==
    /\ WriterFailed
    /\ Len(tracks) = 250
    /\ Len(calls) = 2
    /\ Len(added) = 200
    /\ result \in {"raise", "False"}

NoCollaboratorFailed == failed = {} /\ search_failed = {}

DestUris == {dest_items[k].uri : k \in 1..Len(dest_items)}

\* C3: an update run adds no reference that the destination playlist already
\* held before the run (stated for the runs in which no collaborator call
\* fails).
C3_UpdateAddsNoDuplicate ==
    (branch = "update" /\ NoCollaboratorFailed) =>
        \A k \in 1..Len(added) : added[k] \notin DestUris

\* C4: the list of resolved references never holds a reference twice (stated
\* for source lists of pairwise different tracks).
C4_ResolvedHasNoDuplicate ==
    NoDuplicates(work) => NoDuplicates(spotify_uris)

\* C5: after a failure of users_likes_tracks or of playlist_items the run
\* searches no track, creates no playlist and adds nothing.
C5_ListingFailureStopsRun ==
    ("users_likes_tracks" \in failed \/ "playlist_items" \in failed) =>
        /\ searched = {}
        /\ created = 0
        /\ calls = <<>>

\* C6: a track whose search call raised is in the unresolved list and gave no
\* reference; the run goes on: it leaves the search loop only when every
\* track of the loop has been searched, the search failure never surfaces as
\* an exception, and when the writer calls succeed the resolved references
\* are what the playlist received.
C6_SearchFailureAbsorbed ==
    /\ \A k \in search_failed :
          /\ k \in 1..Len(work)
          /\ work[k] \in Range(not_found_tracks)
          /\ k \notin Range(uri_src)
    /\ (search_failed # {} /\ pc # "search") => searched = 1..Len(work)
    /\ (search_failed # {} /\ result = "raise") => (WriterFailed \/ CreateFailed)
    /\ (search_failed # {} /\ pc = "done" /\ ~WriterFailed /\ ~CreateFailed) =>
          added = spotify_uris

\* the search of the first of two tracks raised, the second was resolved
\* and written
C6_Witness ==
    /\ pc = "done"
    /\ Len(work) = 2
    /\ search_failed = {1}
    /\ not_found_tracks = <<work[1]>>
    /\ uri_src = <<2>>
    /\ added = spotify_uris
    /\ Len(added) = 1

ResolvePhaseCompleted == work # <<>> /\ i > Len(work)

\* C7: a run that finished its search loop with a non-empty unresolved list
\* has written the report when it ends (stated for the runs in which no
\* collaborator call fails, the report write included).
C7_ReportWritten ==
    (pc = "done" /\ ResolvePhaseCompleted /\ not_found_tracks # <<>>
       /\ NoCollaboratorFailed) =>
        reports = <<not_found_tracks>>

NoPlaylistOfThatName ==
    \A k \in 1..Len(user_playlists) : lower(user_playlists[k]) # lower(playlist_name)

\* C8: update_playlist_from_yandex with no playlist of the requested name and
\* create_if_not_exists false searches nothing, creates nothing, adds nothing
\* and returns False.
C8_PlaylistNotFound ==
    (entry = "update_playlist_from_yandex" /\ NoPlaylistOfThatName
       /\ ~create_if_not_exists) =>
        /\ searched = {}
        /\ created = 0
        /\ calls = <<>>
        /\ added = <<>>
        /\ pc = "done" => result = "False"

\* the liked tracks were listed, the user has a playlist of another name only
C8_Witness ==
    /\ entry = "update_playlist_from_yandex"
    /\ NoPlaylistOfThatName
    /\ ~create_if_not_exists
    /\ user_playlists # <<>>
    /\ yandex_tracks # <<>>
    /\ "current_user_playlists" \notin failed
    /\ pc = "done"
    /\ result = "False"

SelScore(k) == total_score(sel_target.title, sel_target.artist, sel_candidates[k])
SelIndexes == 1..Len(sel_candidates)

\* C9: when some candidate scores above 0.6, _find_best_match returns the
\* first candidate in input order among those of maximum score.
C9_BestIsFirstMaximum ==
    (pc = "done" /\ \E k \in SelIndexes : RGt(SelScore(k), Rat(6, 10))) =>
        \E k \in SelIndexes :
            /\ \A j \in SelIndexes : RGe(SelScore(k), SelScore(j))
            /\ \A j \in 1..(k - 1) : RGt(SelScore(k), SelScore(j))
            /\ sel_match = sel_candidates[k]

\* two different candidates share the maximum score, the first is returned
C9_Witness ==
    /\ pc = "done"
    /\ Len(sel_candidates) = 2
    /\ sel_candidates[1] # sel_candidates[2]
    /\ REq(SelScore(1), SelScore(2))
    /\ RGt(SelScore(1), Rat(6, 10))
    /\ sel_match = sel_candidates[1]

\* C10: _find_best_match returns None exactly when no candidate scores
\* strictly above 0.6, and a returned candidate is one of the candidates and
\* scores strictly above 0.6.
C10_ThresholdIsStrict ==
    pc = "done" =>
        /\ sel_match = None <=> \A k \in SelIndexes : ~RGt(SelScore(k), Rat(6, 10))
        /\ sel_match # None =>
              \E k \in SelIndexes :
                  /\ sel_match = sel_candidates[k]
                  /\ RGt(SelScore(k), Rat(6, 10))

\* a candidate scoring exactly 0.6 is rejected
C10_Witness ==
    /\ pc = "done"
    /\ sel_candidates # <<>>
    /\ \E k \in SelIndexes : REq(SelScore(k), Rat(6, 10))
    /\ sel_match = None

DifferReturned == entry = "find_missing_tracks" /\ pc = "done"

\* C11: find_missing_tracks(S, S) is the empty list for every non-empty S,
\* and a track compared with itself has similarity 1 and is judged similar.
C11_SelfDiffIsEmpty ==
    /\ (DifferReturned /\ diff_source # <<>> /\ diff_dest = diff_source) =>
          diff_missing = <<>>
    /\ (entry = "is_track_similar" /\ pc = "done" /\ sim_track1 = sim_track2) =>
          /\ REq(similarity[1], Rat(1, 1))
          /\ similar[1]

\* a list of two different tracks, one with punctuation, capitals and blanks,
\* was compared with itself
C11_Witness ==
    /\ DifferReturned
    /\ diff_source = <<U3, U1>>
    /\ diff_dest = diff_source
    /\ diff_missing = <<>>

\* the indexes of the source tracks that are similar to no destination track
AbsentIndexes ==
    {k \in 1..Len(diff_source) :
        \A d \in 1..Len(diff_dest) : ~is_track_similar(diff_source[k], diff_dest[d])}

\* the position in the result of the source track of index k
Rank(absent, k) == Cardinality({j \in absent : j <= k})

\* C12: find_missing_tracks returns the source tracks that are similar to no
\* destination track, each once and in source order; the source itself when
\* the destination is empty; and the call changes neither input list.
C12_MissingIsSubsequence ==
    /\ [](DifferReturned =>
            LET absent == AbsentIndexes
            IN  /\ Len(diff_missing) = Cardinality(absent)
                /\ \A k \in absent : diff_missing[Rank(absent, k)] = diff_source[k]
                /\ diff_dest = <<>> => diff_missing = diff_source)
    /\ [][diff_source' = diff_source /\ diff_dest' = diff_dest]_vars

\* of two different source tracks the first is similar to a destination
\* track and the second is returned
C12_Witness ==
    /\ DifferReturned
    /\ Len(diff_source) = 2
    /\ diff_source[1] # diff_source[2]
    /\ diff_dest # <<>>
    /\ diff_missing = <<diff_source[2]>>

Trimmed(s) == s = <<>> \/ (~IsSpace(s[1]) /\ ~IsSpace(s[Len(s)]))

\* C13: normalizing the normalized title and artist again gives the same key,
\* and a normalized field has no leading or trailing whitespace.
C13_NormalizerIdempotent ==
    (entry = "normalize_track_info" /\ pc = "done") =>
        /\ renormalized.key = normalized.key
        /\ Trimmed(normalized.title)
        /\ Trimmed(normalized.artist)

\* C14: the similarity ratio of two tracks and the verdict of
\* is_track_similar do not depend on the order of the two arguments.
C14_SimilaritySymmetric ==
    (entry = "is_track_similar" /\ pc = "done") =>
        /\ REq(similarity[1], similarity[2])
        /\ similar[1] = similar[2]

\* the selection _find_best_match makes for the k-th logged query (None when
\* the query returned nothing)
LogBest(k) ==
    IF srch_log[k].results = <<>> THEN None
    ELSE find_best_match(srch_title, srch_artist, srch_log[k].results)

\* the candidate lists of the logged queries that returned results, in order
RECURSIVE NonEmptyResults(_)
NonEmptyResults(log) ==
    IF log = <<>> THEN <<>>
    ELSE IF Head(log).results = <<>> THEN NonEmptyResults(Tail(log))
    ELSE <<Head(log).results>> \o NonEmptyResults(Tail(log))

SearchRaised == "search" \in failed

\* C15: search_spotify_track issues the queries of its list in the list's
\* order (fielded track and artist, both quoted, plain, fielded track only),
\* calls _find_best_match exactly once per query that returned results, and
\* stops at the first query whose selection is not None, returning its uri:
\* every query before the last one issued gave no result or a None selection,
\* and None is returned only after the whole list (or an exception).
C15_QueriesInOrderUntilMatch ==
    entry = "search_spotify_track" =>
        LET queries == search_queries(srch_title, srch_artist)
            n == Len(srch_log)
        IN  /\ n <= Len(queries)
            /\ \A k \in 1..n : srch_log[k].query = queries[k]
            /\ queries[1] = TrackField \o Quoted(srch_title) \o <<" ">>
                                \o ArtistField \o Quoted(srch_artist)
            /\ queries[Len(queries)] =
                   IF Len(srch_title) > 3 THEN TrackField \o Quoted(srch_title)
                   ELSE srch_title \o <<" ">> \o srch_artist
            /\ \A k \in 1..(n - 1) : LogBest(k) = None
            /\ Len(selector_calls) = Len(NonEmptyResults(srch_log))
            /\ \A k \in 1..Len(selector_calls) :
                   /\ selector_calls[k].candidates = NonEmptyResults(srch_log)[k]
                   /\ selector_calls[k].target_title = srch_title
                   /\ selector_calls[k].target_artist = srch_artist
            /\ pc # "done" => (srch_uri = 0 /\ (n > 0 => LogBest(n) = None))
            /\ (pc = "done" /\ ~SearchRaised) =>
                   IF LogBest(n) # None
                   THEN srch_uri = LogBest(n).uri
                   ELSE srch_uri = 0 /\ n = Len(queries)
            /\ (pc = "done" /\ SearchRaised) => srch_uri = 0

\* of four queries the first returned nothing, the second a candidate that
\* was not selected, the third the selected candidate; the fourth was not
\* issued
C15_Witness ==
    /\ entry = "search_spotify_track" /\ pc = "done"
    /\ Len(search_queries(srch_title, srch_artist)) = 4
    /\ Len(srch_log) = 3
    /\ srch_log[1].results = <<>>
    /\ srch_log[2].results # <<>>
    /\ Len(selector_calls) = 2
    /\ srch_uri = srch_log[3].results[1].uri

\* the liked track y is similar to no track of the playlist as fetched
\* (playlist_tracks holds the track_info of every item of dest_items, in
\* order, or nothing when playlist_items failed)
NotInPlaylist(y) ==
    \A k \in 1..Len(playlist_tracks) : ~similar_memo[y, dest_items[k]]

Diffed == pc \notin {"get_playlist_tracks", "find_missing_tracks"}

\* C16: an update run searches exactly the liked tracks that are similar to no
\* track of the fetched playlist, in source order and one after the other,
\* each at most once; every resolved reference comes from a searched track;
\* and when no track is missing the run returns True without a search or a
\* playlist_add_items call.
C16_UpdateSearchesOnlyMissing ==
    /\ [](branch = "update" =>
            /\ ~Diffed => (work = <<>> /\ searched = {})
            /\ Diffed => work = SelectSeq(yandex_tracks, NotInPlaylist)
            /\ searched = (1..(i - 1)) \cup (IF q > 0 THEN {i} ELSE {})
            /\ searched \subseteq 1..Len(work)
            /\ Range(uri_src) \subseteq searched
            /\ (Diffed /\ work = <<>>) =>
                  /\ pc = "done" /\ result = "True"
                  /\ searched = {} /\ spotify_uris = <<>> /\ calls = <<>>)
    /\ [][branch = "update" => (i' \in {i, i + 1} /\ (Diffed => work' = work))]_vars

\* of two liked tracks the first is in the playlist and the second is not:
\* only the second was searched, and its reference was added
C16_Witness ==
    /\ branch = "update" /\ pc = "done"
    /\ failed = {}
    /\ Len(yandex_tracks) = 2
    /\ playlist_tracks # <<>>
    /\ work = <<yandex_tracks[2]>>
    /\ yandex_tracks[1] # yandex_tracks[2]
    /\ searched = {1}
    /\ Len(added) = 1

\* the tracks of the search loop whose search has returned
Processed == 1..(i - 1)

\* the processed tracks that gave no reference
UnresolvedIndexes == Processed \ Range(uri_src)

\* C17: every track the search loop has processed gave exactly one output,
\* its reference in the resolved list or itself in the unresolved list, and
\* both lists are in source order; a reference was selected among candidates
\* scoring above 0.6 for its track; a track for which no query returned a
\* candidate scoring above 0.6 is in the unresolved list; and the loop goes
\* on to the last track whatever the searches gave.
C17_ResolvedUnresolvedPartition ==
    /\ Len(spotify_uris) + Len(not_found_tracks) = i - 1
    /\ Len(uri_src) = Len(spotify_uris)
    /\ Range(uri_src) \subseteq Processed
    /\ \A k, l \in 1..Len(uri_src) : k < l => uri_src[k] < uri_src[l]
    /\ Len(not_found_tracks) = Cardinality(UnresolvedIndexes)
    /\ \A k \in UnresolvedIndexes :
          not_found_tracks[Rank(UnresolvedIndexes, k)] = work[k]
    /\ \A k \in 1..Len(uri_src) :
          \E c \in Catalogue :
              /\ c.uri = spotify_uris[k]
              /\ RGt(score_memo[work[uri_src[k]], c], min_score)
    /\ \A k \in Processed : k \notin good_seen => k \in UnresolvedIndexes
    /\ (work # <<>> /\ pc # "search") => i = Len(work) + 1
    /\ result = "raise" => (WriterFailed \/ CreateFailed)

\* of two tracks, no query for the first returned a candidate above 0.6 and
\* it is unresolved; the second was resolved and written
C17_Witness ==
    /\ pc = "done"
    /\ Len(work) = 2
    /\ searched = {1, 2}
    /\ search_failed = {}
    /\ good_seen = {2}
    /\ not_found_tracks = <<work[1]>>
    /\ uri_src = <<2>>
    /\ added = spotify_uris

FreshCreation == branch \in {"transfer", "create_missing"}

\* C18: on the fresh-creation paths user_playlist_create is called at most
\* once, only when the search loop has processed every source track and
\* resolved at least one reference; every playlist_add_items call comes after
\* a successful creation; and a run that resolved nothing creates no playlist
\* and adds nothing.
C18_CreatedOnceAfterSearch ==
    FreshCreation =>
        /\ created <= 1
        /\ created = 1 => ~CreateFailed
        /\ (created = 1 \/ CreateFailed) =>
              /\ work # <<>>
              /\ i = Len(work) + 1
              /\ searched = 1..Len(work)
              /\ spotify_uris # <<>>
        /\ calls # <<>> => created = 1
        /\ (pc = "done" /\ spotify_uris = <<>>) =>
              (created = 0 /\ ~CreateFailed /\ calls = <<>> /\ added = <<>>)

\* the create-if-missing branch searched two tracks, resolved one, created
\* the playlist and added the reference
C18_Witness ==
    /\ branch = "create_missing" /\ pc = "done"
    /\ Len(work) = 2
    /\ Len(spotify_uris) = 1
    /\ created = 1
    /\ calls = <<spotify_uris>>
    /\ result = "True"

\* a transfer run searched two tracks and resolved none
C18_NothingResolved ==
    /\ branch = "transfer" /\ pc = "done"
    /\ searched = {1, 2}
    /\ spotify_uris = <<>>
    /\ created = 0

====
